---- MODULE Spec2Model ----
(***************************************************************************)
(* A model of dns_bench_linux.py (class DNSBenchmark): address validation, *)
(* resolver discovery, the per-server worker pool, the orchestrating loop  *)
(* of run_benchmark and the ranking done by print_results.                 *)
(*                                                                         *)
(* Strings that the code inspects character by character (addresses) are   *)
(* sequences of one-character strings.  A label is the sequence of the     *)
(* pieces it is formatted from: <<"Current-", address>> for                *)
(* f"Current-{server}", <<"Google">> for a key of the public table.        *)
(* Times are exact: a time is a record [fin, v], v counting 1/TimeScale ms,*)
(* so that means and medians of up to NumDomains samples are integers.     *)
(***************************************************************************)
EXTENDS Integers, Sequences, FiniteSets, TLC

VARIABLES
    path_commands,      \* the lookup utilities `which` finds on the host
    sources,            \* what the four discovery sources yield on the host
    test_current,       \* run_benchmark(test_current=...)
    test_public,        \* run_benchmark(test_public=...)
    top3_only,          \* run_benchmark(top3_only=...)
    custom_servers,     \* run_benchmark(custom_servers=...), <<>> for None
    pc,                 \* where the main thread is
    dig_available,      \* self.dig_available
    current_dns,        \* current_dns of run_benchmark
    servers_to_test,    \* servers_to_test of run_benchmark
    idx,                \* 1-based position of the for loop of run_benchmark
    results,            \* results of run_benchmark / argument of print_results
    fut,                \* the futures of the executors: <<server index, domain>> -> future
    successful_queries, \* successful_queries of benchmark_server
    failed_queries,     \* failed_queries of benchmark_server
    exc,                \* the exception travelling up the main thread
    log,                \* history: how each benchmark_server call ended
    calls,              \* history: the operations the run has performed
    output              \* what print_results printed

vars == <<path_commands, sources, test_current, test_public, top3_only,
          custom_servers, pc, dig_available, current_dns, servers_to_test,
          idx, results, fut, successful_queries, failed_queries, exc, log,
          calls, output>>

(***************************************************************************)
(* Bounds of the model.                                                    *)
(***************************************************************************)
\* len(self.test_domains) is 24 in the program; the model runs this many.
NumDomains == 4
\* Candidate tokens one discovery source yields (specification SpecDisc).
MaxCands == 1
\* Results handed to print_results (specification SpecReport).
MaxResults == 3

\* ThreadPoolExecutor(max_workers=3)
MaxWorkers == 3

Domains == 1..NumDomains

(***************************************************************************)
(* Characters and strings.                                                 *)
(***************************************************************************)
DecDigits == <<"0", "1", "2", "3", "4", "5", "6", "7", "8", "9">>

HexLetters == {"a", "b", "c", "d", "e", "f", "A", "B", "C", "D", "E", "F"}

Range(s) == {s[i] : i \in DOMAIN s}

IsDigit(c) == c \in Range(DecDigits)

IsHexDigit(c) == IsDigit(c) \/ c \in HexLetters

\* int(c) for a decimal digit c
DigitValue(c) == (CHOOSE i \in DOMAIN DecDigits : DecDigits[i] = c) - 1

RECURSIVE IntOf(_)
\* int(part) for a string of decimal digits
IntOf(part) ==
    IF part = <<>> THEN 0
    ELSE 10 * IntOf(SubSeq(part, 1, Len(part) - 1)) + DigitValue(part[Len(part)])

RECURSIVE Split(_, _)
\* s.split(sep) for a one-character separator
Split(s, sep) ==
    IF s = <<>> THEN << <<>> >>
    ELSE LET rest == Split(Tail(s), sep)
         IN  IF Head(s) = sep
             THEN << <<>> >> \o rest
             ELSE << <<Head(s)>> \o Head(rest) >> \o Tail(rest)

\* s.startswith(prefix)
StartsWith(s, prefix) ==
    Len(s) >= Len(prefix) /\ SubSeq(s, 1, Len(prefix)) = prefix

RECURSIVE DecChars(_)
\* the decimal numeral of n, as written in the source's literals
DecChars(n) ==
    IF n < 10 THEN <<DecDigits[n + 1]>>
    ELSE DecChars(n \div 10) \o <<DecDigits[(n % 10) + 1]>>

\* the dotted-quad literal 'a.b.c.d'
Dotted(a, b, c, d) ==
    DecChars(a) \o <<".">> \o DecChars(b) \o <<".">> \o DecChars(c)
        \o <<".">> \o DecChars(d)

(***************************************************************************)
(* validate_ip_address                                                     *)
(***************************************************************************)
\* re.match(r'^(\d{1,3}\.){3}\d{1,3}$', ip)
Ipv4PatternMatches(ip) ==
    LET parts == Split(ip, ".")
    IN  /\ Len(parts) = 4
        /\ \A i \in 1..4 :
              /\ Len(parts[i]) \in 1..3
              /\ \A k \in 1..Len(parts[i]) : IsDigit(parts[i][k])

\* re.match(r'^([0-9a-fA-F]{0,4}:){2,7}[0-9a-fA-F]{0,4}$', ip)
Ipv6PatternMatches(ip) ==
    LET parts == Split(ip, ":")
    IN  /\ Len(parts) \in 3..8
        /\ \A i \in 1..Len(parts) :
              /\ Len(parts[i]) \in 0..4
              /\ \A k \in 1..Len(parts[i]) : IsHexDigit(parts[i][k])

validate_ip_address(ip) ==
    IF Ipv4PatternMatches(ip)
    THEN LET parts == Split(ip, ".")
         IN  \A i \in 1..Len(parts) : IntOf(parts[i]) <= 255
    ELSE IF Ipv6PatternMatches(ip) THEN TRUE
    ELSE FALSE

(***************************************************************************)
(* The addresses of the model.                                             *)
(***************************************************************************)
Addr1111 == Dotted(1, 1, 1, 1)
Addr8888 == Dotted(8, 8, 8, 8)
Addr9999 == Dotted(9, 9, 9, 9)
AddrStub == Dotted(127, 0, 0, 53)
AddrOctet256 == Dotted(8, 8, 8, 256)
AddrV6Loopback == <<":", ":", "1">>
AddrV6LinkLocal == <<"f", "e", "8", "0", ":", ":", "1">>
AddrWord == <<"l", "o", "c", "a", "l">>

\* self.public_dns_servers.items(), in insertion order
public_dns_servers ==
    << << <<"Cloudflare">>,   Dotted(1, 1, 1, 1) >>,
       << <<"Cloudflare-2">>, Dotted(1, 0, 0, 1) >>,
       << <<"Google">>,       Dotted(8, 8, 8, 8) >>,
       << <<"Google-2">>,     Dotted(8, 8, 4, 4) >>,
       << <<"Quad9">>,        Dotted(9, 9, 9, 9) >>,
       << <<"Quad9-2">>,      Dotted(149, 112, 112, 112) >>,
       << <<"OpenDNS">>,      Dotted(208, 67, 222, 222) >>,
       << <<"OpenDNS-2">>,    Dotted(208, 67, 220, 220) >>,
       << <<"Level3">>,       Dotted(4, 2, 2, 1) >>,
       << <<"Level3-2">>,     Dotted(4, 2, 2, 2) >> >>

\* self.top3_dns_servers.items(), in insertion order
top3_dns_servers ==
    << << <<"Cloudflare">>, Dotted(1, 1, 1, 1) >>,
       << <<"Google">>,     Dotted(8, 8, 8, 8) >>,
       << <<"Quad9">>,      Dotted(9, 9, 9, 9) >> >>

(***************************************************************************)
(* get_current_dns_servers.  A discovery source is what the scan of its    *)
(* text yields: [ok, cands].  ok is FALSE when the source contributes      *)
(* nothing (the file cannot be opened, the utility is missing, times out   *)
(* or exits non-zero).  cands are the tokens the scan hands to the         *)
(* validity test, in order: parts[1] of each nameserver line, the tokens   *)
(* after a 'DNS Servers:' marker, the text after the colon of an IP4.DNS / *)
(* IP6.DNS line.  A source that fails midway yields a shorter cands.       *)
(***************************************************************************)
\* the sources in the order the code consults them
SourceNames == <<"/etc/resolv.conf", "systemd-resolve --status",
                 "resolvectl status", "nmcli dev show">>

\* server.startswith('127.')
StartsWith127(server) == StartsWith(server, <<"1", "2", "7", ".">>)

\* the test every source applies before a token is added
Acceptable(server) == validate_ip_address(server) /\ ~StartsWith127(server)

\* one candidate token: acc is [dns_servers, seen_servers]
AddServer(acc, server) ==
    IF Acceptable(server)
    THEN IF server \notin acc.seen_servers
         THEN [dns_servers  |-> Append(acc.dns_servers, server),
               seen_servers |-> acc.seen_servers \cup {server}]
         ELSE acc
    ELSE acc

RECURSIVE ScanCands(_, _)
\* the loop of one source over its candidate tokens
ScanCands(acc, cands) ==
    IF cands = <<>> THEN acc
    ELSE ScanCands(AddServer(acc, Head(cands)), Tail(cands))

RECURSIVE ScanSources(_, _)
\* the sources one after the other; a failed source is skipped
ScanSources(acc, srcs) ==
    IF srcs = <<>> THEN acc
    ELSE ScanSources(IF Head(srcs).ok THEN ScanCands(acc, Head(srcs).cands)
                     ELSE acc,
                     Tail(srcs))

get_current_dns_servers(srcs) ==
    ScanSources([dns_servers |-> <<>>, seen_servers |-> {}], srcs).dns_servers

(***************************************************************************)
(* check_command and query_dns                                             *)
(***************************************************************************)
\* subprocess.run(['which', command], check=True) succeeds
check_command(command) == command \in path_commands

\* not self.dig_available and not nslookup_available
NoLookupTool(dig, nslookup) == ~dig /\ ~nslookup

RECURSIVE Gcd(_, _)
Gcd(a, b) == IF b = 0 THEN a ELSE Gcd(b, a % b)

RECURSIVE LcmUpTo(_)
LcmUpTo(n) == IF n <= 1 THEN 1 ELSE (LcmUpTo(n - 1) * n) \div Gcd(LcmUpTo(n - 1), n)

\* ticks per millisecond
TimeScale == LcmUpTo(NumDomains)

\* float('inf')
Inf == [fin |-> FALSE, v |-> 0]

Fin(v) == [fin |-> TRUE, v |-> v]

\* a whole number of milliseconds
Ms(n) == Fin(n * TimeScale)

\* (end_time - start_time) * 1000 of a lookup, in ms
ElapsedMs == {50}

\* What the external lookup did: it ran to an exit status (rc0: the status
\* is 0; blank: stdout.strip() is empty; notfound: stdout holds 'NXDOMAIN'
\* or "can't find"), it hit the 3 s timeout, or starting it failed.
ExtResults ==
    {[kind |-> "exit", rc0 |-> r, blank |-> b, notfound |-> n] :
        r \in BOOLEAN, b \in BOOLEAN, n \in BOOLEAN}
    \cup {[kind |-> k, rc0 |-> FALSE, blank |-> TRUE, notfound |-> FALSE] :
            k \in {"timeout", "error"}}

\* the lookups that resolve the name
GoodExtResults ==
    {[kind |-> "exit", rc0 |-> TRUE, blank |-> FALSE, notfound |-> FALSE]}

\* the (success, response_time) pair query_dns returns
query_dns(dig, ext, ms) ==
    IF ext.kind = "timeout" THEN [success |-> FALSE, time |-> Inf]
    ELSE IF ext.kind = "error" THEN [success |-> FALSE, time |-> Inf]
    ELSE IF ext.rc0
         THEN LET success == IF dig THEN ~ext.blank
                             ELSE ~ext.notfound /\ ~ext.blank
              IN  [success |-> success,
                   time    |-> IF success THEN Ms(ms) ELSE Inf]
         ELSE [success |-> FALSE, time |-> Inf]

(***************************************************************************)
(* benchmark_server: the statistics                                        *)
(***************************************************************************)
RECURSIVE SumV(_)
SumV(samples) == IF samples = <<>> THEN 0 ELSE Head(samples).v + SumV(Tail(samples))

RECURSIVE MinV(_)
MinV(samples) ==
    IF Len(samples) = 1 THEN samples[1].v
    ELSE LET m == MinV(Tail(samples))
         IN  IF samples[1].v <= m THEN samples[1].v ELSE m

RECURSIVE MaxV(_)
MaxV(samples) ==
    IF Len(samples) = 1 THEN samples[1].v
    ELSE LET m == MaxV(Tail(samples))
         IN  IF samples[1].v >= m THEN samples[1].v ELSE m

\* x placed after the elements that are not greater than it
InsertByV(sorted, x) ==
    LET after == {j \in 1..Len(sorted) : sorted[j].v > x.v}
        at    == IF after = {} THEN Len(sorted) + 1
                 ELSE CHOOSE j \in after : \A k \in after : j <= k
    IN  SubSeq(sorted, 1, at - 1) \o <<x>> \o SubSeq(sorted, at, Len(sorted))

RECURSIVE SortedByV(_)
\* sorted(samples)
SortedByV(samples) ==
    IF samples = <<>> THEN <<>>
    ELSE InsertByV(SortedByV(SubSeq(samples, 1, Len(samples) - 1)),
                   samples[Len(samples)])

\* statistics.mean
Mean(samples) == Fin(SumV(samples) \div Len(samples))

\* statistics.median
Median(samples) ==
    LET s == SortedByV(samples)
        n == Len(s)
    IN  IF n % 2 = 1 THEN Fin(s[(n + 1) \div 2].v)
        ELSE Fin((s[n \div 2].v + s[(n \div 2) + 1].v) \div 2)

\* the dictionary benchmark_server returns
ServerStats(name, dns_server, succ, failed) ==
    LET total_queries == NumDomains
    IN  [name               |-> name,
         server             |-> dns_server,
         success_rate       |-> [num |-> Len(succ) * 100, den |-> total_queries],
         successful_queries |-> Len(succ),
         failed_queries     |-> failed,
         avg_time           |-> IF succ # <<>> THEN Mean(succ) ELSE Inf,
         min_time           |-> IF succ # <<>> THEN Fin(MinV(succ)) ELSE Inf,
         max_time           |-> IF succ # <<>> THEN Fin(MaxV(succ)) ELSE Inf,
         median_time        |-> IF succ # <<>> THEN Median(succ) ELSE Inf]

\* CountFuture whose "except Exception" forgets failed_queries += 1
CountFutureIgnoresRaised(f, succ, failed) ==
    IF f.st = "raised"
    THEN [succ |-> succ, failed |-> failed]
    ELSE IF f.success /\ f.time # Inf
         THEN [succ |-> Append(succ, f.time), failed |-> failed]
         ELSE [succ |-> succ, failed |-> failed + 1]

\* the body of "for future in as_completed(...)" for one future f
CountFuture(f, succ, failed) ==
    IF f.st = "raised"
    THEN [succ |-> succ, failed |-> failed + 1]
    ELSE IF f.success /\ f.time # Inf
         THEN [succ |-> Append(succ, f.time), failed |-> failed]
         ELSE [succ |-> succ, failed |-> failed + 1]

(***************************************************************************)
(* run_benchmark: the server list                                          *)
(***************************************************************************)
CurrentLabel(server) == <<"Current-", server>>

CustomLabel(server) == <<"Custom-", server>>

RECURSIVE AppendCurrent(_, _)
\* for server in current_dns: servers_to_test.append(...)
AppendCurrent(list, current) ==
    IF current = <<>> THEN list
    ELSE AppendCurrent(Append(list, <<CurrentLabel(Head(current)), Head(current)>>),
                       Tail(current))

\* CustomAccepted without the validity test
AnyCustomAccepted(server) == TRUE

\* the test a custom address has to pass
CustomAccepted(server) == validate_ip_address(server)

RECURSIVE AppendCustom(_, _)
\* for server in custom_servers: append when valid, warn and skip otherwise
AppendCustom(list, custom) ==
    IF custom = <<>> THEN list
    ELSE AppendCustom(IF CustomAccepted(Head(custom))
                      THEN Append(list, <<CustomLabel(Head(custom)), Head(custom)>>)
                      ELSE list,
                      Tail(custom))

\* the public entries appended when test_public
PublicPart(top3) == IF top3 THEN top3_dns_servers ELSE public_dns_servers

\* servers_to_test as run_benchmark prepares it
BuildServerList(tc, tp, top3, custom, current) ==
    LET s1 == IF tc THEN AppendCurrent(<<>>, current) ELSE <<>>
        s2 == IF custom # <<>> THEN AppendCustom(s1, custom) ELSE s1
    IN  IF tp THEN s2 \o PublicPart(top3) ELSE s2

(***************************************************************************)
(* print_results                                                           *)
(***************************************************************************)
\* InsertByAvg of a sort that is not stable: x goes before its ties
InsertByAvgBeforeTies(sorted, x) ==
    LET after == {j \in 1..Len(sorted) : sorted[j].avg_time.v >= x.avg_time.v}
        at    == IF after = {} THEN Len(sorted) + 1
                 ELSE CHOOSE j \in after : \A k \in after : j <= k
    IN  SubSeq(sorted, 1, at - 1) \o <<x>> \o SubSeq(sorted, at, Len(sorted))

\* x placed after the elements whose avg_time is not greater than its own
InsertByAvg(sorted, x) ==
    LET after == {j \in 1..Len(sorted) : sorted[j].avg_time.v > x.avg_time.v}
        at    == IF after = {} THEN Len(sorted) + 1
                 ELSE CHOOSE j \in after : \A k \in after : j <= k
    IN  SubSeq(sorted, 1, at - 1) \o <<x>> \o SubSeq(sorted, at, Len(sorted))

RECURSIVE SortByAvg(_)
\* valid_results.sort(key=lambda x: x['avg_time'])
SortByAvg(rs) ==
    IF rs = <<>> THEN <<>>
    ELSE InsertByAvg(SortByAvg(SubSeq(rs, 1, Len(rs) - 1)), rs[Len(rs)])

IsValidResult(r) == r.avg_time # Inf

IsFailedResult(r) == r.avg_time = Inf

\* r['name'].startswith('Current-')
IsCurrentName(name) == name[1] = "Current-"

NoComparison == [kind |-> "none", rank |-> 0, num |-> 0, den |-> 1]

\* Improvement taken relative to the best server instead of the current one
ImprovementOverBest(current_avg, best_avg) ==
    [num |-> (current_avg.v - best_avg.v) * 100, den |-> best_avg.v]

\* ((current_best['avg_time'] - best['avg_time']) / current_best['avg_time']) * 100
Improvement(current_avg, best_avg) ==
    [num |-> (current_avg.v - best_avg.v) * 100, den |-> current_avg.v]

\* len(valid_results) > 1
EnoughToCompare(valid_results) == Len(valid_results) > 1

\* the "Compare with current DNS" block
Comparison(valid_results) ==
    LET best == valid_results[1]
        current_results == SelectSeq(valid_results, LAMBDA r : IsCurrentName(r.name))
    IN  IF current_results # <<>> /\ EnoughToCompare(valid_results)
        THEN LET current_best == current_results[1]
                 at == {i \in 1..Len(valid_results) : valid_results[i] = current_best}
                 current_rank == CHOOSE i \in at : \A k \in at : i <= k
             IN  IF current_rank > 1
                 THEN LET imp == Improvement(current_best.avg_time, best.avg_time)
                      IN  [kind |-> "improve", rank |-> current_rank,
                           num |-> imp.num, den |-> imp.den]
                 ELSE [kind |-> "fastest", rank |-> current_rank,
                       num |-> 0, den |-> 1]
        ELSE NoComparison

NothingPrinted ==
    [kind |-> "nothing", json |-> <<>>, table |-> <<>>, failures |-> <<>>,
     best |-> <<>>, comparison |-> NoComparison]

\* what print_results writes: nothing, the JSON dump, or the report (the
\* ranked table, the failure listing, the best server, the comparison)
print_results(rs, json_output) ==
    IF rs = <<>> THEN NothingPrinted
    ELSE IF json_output
    THEN [NothingPrinted EXCEPT !.kind = "json", !.json = rs]
    ELSE LET valid_results  == SortByAvg(SelectSeq(rs, IsValidResult))
             failed_results == SelectSeq(rs, IsFailedResult)
         IN  [kind       |-> "table",
              json       |-> <<>>,
              table      |-> valid_results,
              failures   |-> failed_results,
              best       |-> IF valid_results # <<>> THEN <<valid_results[1]>> ELSE <<>>,
              comparison |-> IF valid_results # <<>> THEN Comparison(valid_results)
                             ELSE NoComparison]

(***************************************************************************)
(* The executors.  fut[<<i, d>>] is the future of domain d submitted by    *)
(* the benchmark of servers_to_test[i]: not submitted ("none"), in the     *)
(* work queue ("queued"), being run by a worker ("running"), finished with *)
(* query_dns's pair ("done") or with an exception ("raised"), or handed    *)
(* out by as_completed ("yielded").  When benchmark_server is left its     *)
(* futures are garbage and go back to "none", except those a worker still  *)
(* holds or will still take from the queue.                                *)
(***************************************************************************)
Idle == [st |-> "none", success |-> FALSE, time |-> Inf]

Yielded == [st |-> "yielded", success |-> FALSE, time |-> Inf]

Running(f, i) == {d \in Domains : f[<<i, d>>].st = "running"}

Queued(f, i) == {d \in Domains : f[<<i, d>>].st = "queued"}

\* every lookup a worker is performing right now
InFlight == {k \in DOMAIN fut : fut[k].st = "running"}

\* a worker of executor i is free to take the next work item
WorkerFree(f, i) == Cardinality(Running(f, i)) < MaxWorkers

\* JoinComplete of an executor left with shutdown(wait=False)
JoinSkipped(f, i) == TRUE

\* executor.shutdown(wait=True) of ThreadPoolExecutor.__exit__ has joined
\* the workers: the queue is drained and nothing runs
JoinComplete(f, i) == Running(f, i) = {} /\ Queued(f, i) = {}

\* the futures of executor i once benchmark_server is left
DropExecutor(f, i) ==
    [k \in DOMAIN f |->
        IF k[1] = i /\ f[k].st \notin {"queued", "running"} THEN Idle ELSE f[k]]

\* the main thread is no longer inside the benchmark of server i
Abandoned(i) == pc = "returned" \/ i < idx

\* AfterInterrupt of a handler that keeps the interrupted server's partial statistics
AfterInterruptKeepsPartial(res, name, dns_server, succ, failed) ==
    Append(res, ServerStats(name, dns_server, succ, failed))

\* results after "except KeyboardInterrupt: break"
AfterInterrupt(res, name, dns_server, succ, failed) == res

\* ErrorEndsLoop of a handler that breaks as the KeyboardInterrupt one does
ErrorBreaks == TRUE

\* whether "except Exception" leaves the for loop
ErrorEndsLoop == FALSE

\* AfterToolCheck without the early return
AlwaysDiscover(dig, nslookup) == "discover"

\* where run_benchmark goes after the two check_command calls
AfterToolCheck(dig, nslookup) ==
    IF NoLookupTool(dig, nslookup) THEN "returned" ELSE "discover"

(***************************************************************************)
(* run_benchmark                                                           *)
(***************************************************************************)
inputs == <<path_commands, sources, test_current, test_public, top3_only,
            custom_servers>>

\* lines 233-244: the tool check
CheckTools ==
    /\ pc = "start"
    /\ dig_available' = check_command("dig")
    /\ pc' = AfterToolCheck(check_command("dig"), check_command("nslookup"))
    /\ calls' = calls \cup {"check_command"}
    /\ UNCHANGED <<inputs, current_dns, servers_to_test, idx, results, fut,
                   successful_queries, failed_queries, exc, log, output>>

\* lines 246-255: discovery of the current servers
Discover ==
    /\ pc = "discover"
    /\ current_dns' = IF test_current THEN get_current_dns_servers(sources) ELSE <<>>
    /\ calls' = IF test_current THEN calls \cup {"get_current_dns_servers"} ELSE calls
    /\ pc' = "build"
    /\ UNCHANGED <<inputs, dig_available, servers_to_test, idx, results, fut,
                   successful_queries, failed_queries, exc, log, output>>

\* lines 257-286: the server list, and the early return when it is empty
BuildList ==
    /\ pc = "build"
    /\ LET list == BuildServerList(test_current, test_public, top3_only,
                                   custom_servers, current_dns)
       IN  /\ servers_to_test' = list
           /\ pc' = IF list = <<>> THEN "returned" ELSE "loop"
           /\ fut' = [k \in (1..Len(list)) \X Domains |-> Idle]
    /\ calls' = calls \cup {"build"}
    /\ idx' = 1
    /\ results' = <<>>
    /\ UNCHANGED <<inputs, dig_available, current_dns, successful_queries,
                   failed_queries, exc, log, output>>

\* lines 287-292 and 172-184: the loop reaches a server and enters benchmark_server
EnterServer ==
    /\ pc = "loop"
    /\ idx <= Len(servers_to_test)
    /\ pc' = "submit"
    /\ successful_queries' = <<>>
    /\ failed_queries' = 0
    /\ calls' = calls \cup {"benchmark_server"}
    /\ UNCHANGED <<inputs, dig_available, current_dns, servers_to_test, idx,
                   results, fut, exc, log, output>>

\* lines 287, 301-304: the loop is exhausted
LoopDone ==
    /\ pc = "loop"
    /\ idx > Len(servers_to_test)
    /\ pc' = "returned"
    /\ UNCHANGED <<inputs, dig_available, current_dns, servers_to_test, idx,
                   results, fut, successful_queries, failed_queries, exc, log,
                   calls, output>>

\* lines 185-188: executor.submit for the next domain of self.test_domains
Submit ==
    /\ pc = "submit"
    /\ LET todo == {d \in Domains : fut[<<idx, d>>].st = "none"}
           d    == CHOOSE x \in todo : \A y \in todo : x <= y
       IN  /\ fut' = [fut EXCEPT ![<<idx, d>>].st = "queued"]
           /\ pc' = IF todo = {d} THEN "collect" ELSE "submit"
    /\ UNCHANGED <<inputs, dig_available, current_dns, servers_to_test, idx,
                   results, successful_queries, failed_queries, exc, log,
                   calls, output>>

\* a worker thread takes the head of its executor's work queue and calls query_dns
WorkerStart(i, d) ==
    /\ fut[<<i, d>>].st = "queued"
    /\ \A e \in Queued(fut, i) : d <= e
    /\ WorkerFree(fut, i)
    /\ fut' = [fut EXCEPT ![<<i, d>>].st = "running"]
    /\ calls' = calls \cup {"query_dns"}
    /\ UNCHANGED <<inputs, pc, dig_available, current_dns, servers_to_test,
                   idx, results, successful_queries, failed_queries, exc, log,
                   output>>

\* lines 138-170: query_dns returns and the worker sets the future's result
ProbeFinish(i, d, exts) ==
    /\ fut[<<i, d>>].st = "running"
    /\ \E r \in {query_dns(dig_available, ext, ms) : ext \in exts, ms \in ElapsedMs} :
          fut' = [fut EXCEPT ![<<i, d>>] =
                    IF Abandoned(i) THEN Idle
                    ELSE [st |-> "done", success |-> r.success, time |-> r.time]]
    /\ UNCHANGED <<inputs, pc, dig_available, current_dns, servers_to_test,
                   idx, results, successful_queries, failed_queries, exc, log,
                   calls, output>>

\* an exception leaves query_dns (raised in a handler of lines 165-170, or
\* not an Exception) and the worker sets it on the future
WorkerRaise(i, d) ==
    /\ fut[<<i, d>>].st = "running"
    /\ fut' = [fut EXCEPT ![<<i, d>>] =
                 IF Abandoned(i) THEN Idle
                 ELSE [st |-> "raised", success |-> FALSE, time |-> Inf]]
    /\ UNCHANGED <<inputs, pc, dig_available, current_dns, servers_to_test,
                   idx, results, successful_queries, failed_queries, exc, log,
                   calls, output>>

\* lines 190-203: as_completed yields a finished future and the body counts it
Collect(d) ==
    /\ pc = "collect"
    /\ fut[<<idx, d>>].st \in {"done", "raised"}
    /\ LET c == CountFuture(fut[<<idx, d>>], successful_queries, failed_queries)
       IN  /\ successful_queries' = c.succ
           /\ failed_queries' = c.failed
    /\ fut' = [fut EXCEPT ![<<idx, d>>] = Yielded]
    /\ UNCHANGED <<inputs, pc, dig_available, current_dns, servers_to_test,
                   idx, results, exc, log, calls, output>>

\* lines 204-229 and 292-293: as_completed is exhausted, the executor is shut
\* down, the statistics are computed and run_benchmark appends them
Return ==
    /\ pc = "collect"
    /\ \A d \in Domains : fut[<<idx, d>>].st = "yielded"
    /\ JoinComplete(fut, idx)
    /\ results' = Append(results,
                         ServerStats(servers_to_test[idx][1], servers_to_test[idx][2],
                                     successful_queries, failed_queries))
    /\ log' = Append(log, "ok")
    /\ fut' = DropExecutor(fut, idx)
    /\ idx' = idx + 1
    /\ pc' = "loop"
    /\ successful_queries' = <<>>
    /\ failed_queries' = 0
    /\ UNCHANGED <<inputs, dig_available, current_dns, servers_to_test, exc,
                   calls, output>>

\* the user's interrupt: KeyboardInterrupt is raised in the main thread while
\* it is inside benchmark_server's with block; __exit__ starts the shutdown
Interrupt ==
    /\ pc \in {"submit", "collect"}
    /\ exc' = "KeyboardInterrupt"
    /\ pc' = "unwind"
    /\ UNCHANGED <<inputs, dig_available, current_dns, servers_to_test, idx,
                   results, fut, successful_queries, failed_queries, log,
                   calls, output>>

\* an unexpected error (an Exception) is raised in the main thread inside
\* benchmark_server's with block, outside the try of lines 192-203
UnexpectedError ==
    /\ pc \in {"submit", "collect"}
    /\ exc' = "Exception"
    /\ pc' = "unwind"
    /\ UNCHANGED <<inputs, dig_available, current_dns, servers_to_test, idx,
                   results, fut, successful_queries, failed_queries, log,
                   calls, output>>

\* lines 294-296: the shutdown has joined the workers, the KeyboardInterrupt
\* reaches run_benchmark, which leaves the loop and returns results
InterruptCaught ==
    /\ pc = "unwind"
    /\ exc = "KeyboardInterrupt"
    /\ JoinComplete(fut, idx)
    /\ results' = AfterInterrupt(results, servers_to_test[idx][1],
                                 servers_to_test[idx][2],
                                 successful_queries, failed_queries)
    /\ log' = Append(log, "interrupt")
    /\ fut' = DropExecutor(fut, idx)
    /\ pc' = "returned"
    /\ successful_queries' = <<>>
    /\ failed_queries' = 0
    /\ UNCHANGED <<inputs, dig_available, current_dns, servers_to_test, idx,
                   exc, calls, output>>

\* lines 297-299: the shutdown has joined the workers, the Exception reaches
\* run_benchmark, which goes on with the next server
ErrorCaught ==
    /\ pc = "unwind"
    /\ exc = "Exception"
    /\ JoinComplete(fut, idx)
    /\ log' = Append(log, "error")
    /\ fut' = DropExecutor(fut, idx)
    /\ exc' = "none"
    /\ idx' = idx + 1
    /\ pc' = IF ErrorEndsLoop THEN "returned" ELSE "loop"
    /\ successful_queries' = <<>>
    /\ failed_queries' = 0
    /\ UNCHANGED <<inputs, dig_available, current_dns, servers_to_test,
                   results, calls, output>>

\* a further interrupt while __exit__ is still joining the workers: the join
\* is abandoned, the KeyboardInterrupt reaches run_benchmark at once and the
\* workers go on draining the queue
InterruptJoin ==
    /\ pc = "unwind"
    /\ ~JoinComplete(fut, idx)
    /\ exc' = "KeyboardInterrupt"
    /\ results' = AfterInterrupt(results, servers_to_test[idx][1],
                                 servers_to_test[idx][2],
                                 successful_queries, failed_queries)
    /\ log' = Append(log, "interrupt")
    /\ fut' = DropExecutor(fut, idx)
    /\ pc' = "returned"
    /\ successful_queries' = <<>>
    /\ failed_queries' = 0
    /\ UNCHANGED <<inputs, dig_available, current_dns, servers_to_test, idx,
                   calls, output>>

\* lines 306-359
PrintResults ==
    /\ pc = "report"
    /\ \E json_output \in BOOLEAN : output' = print_results(results, json_output)
    /\ pc' = "printed"
    /\ UNCHANGED <<inputs, dig_available, current_dns, servers_to_test, idx,
                   results, fut, successful_queries, failed_queries, exc, log,
                   calls>>

(***************************************************************************)
(* Initial states.                                                         *)
(***************************************************************************)
NoSource == [ok |-> FALSE, cands |-> <<>>]

Found(cands) == [ok |-> TRUE, cands |-> cands]

\* a host with a local stub and a server in resolv.conf, the same server
\* and another one reported by nmcli
TwoServerHost ==
    <<Found(<<AddrStub, Addr8888>>), NoSource, NoSource, Found(<<Addr8888, Addr1111>>)>>

\* two hosts: nothing discoverable, and the one above
HostSources == { <<NoSource, NoSource, NoSource, NoSource>>, TwoServerHost }

\* --custom: absent; an invalid address then a valid one; only an invalid one
CustomChoices == { <<>>, <<AddrOctet256, Addr9999>>, <<AddrWord>> }

\* the state run_benchmark starts from, whatever its inputs
Fresh ==
    /\ dig_available = FALSE
    /\ current_dns = <<>>
    /\ servers_to_test = <<>>
    /\ idx = 1
    /\ results = <<>>
    /\ fut = <<>>
    /\ successful_queries = <<>>
    /\ failed_queries = 0
    /\ exc = "none"
    /\ log = <<>>
    /\ calls = {}
    /\ output = NothingPrinted

\* every combination of options, on every host
InitAll ==
    /\ path_commands \in SUBSET {"dig", "nslookup"}
    /\ sources \in HostSources
    /\ test_current \in BOOLEAN
    /\ test_public \in BOOLEAN
    /\ top3_only \in BOOLEAN
    /\ custom_servers \in CustomChoices
    /\ pc = "start"
    /\ Fresh

\* The runs in which every failure is explored: with dig, the two current
\* servers of TwoServerHost; with nslookup alone, the custom servers (one
\* valid, or none); and a host with no lookup utility at all.
Init ==
    /\ InitAll
    /\ ~test_public
    /\ ~top3_only
    /\ sources = TwoServerHost
    /\ \/ /\ path_commands = {"dig", "nslookup"}
          /\ test_current
          /\ custom_servers = <<>>
       \/ /\ path_commands = {"nslookup"}
          /\ ~test_current
          /\ custom_servers \in {<<AddrOctet256, Addr9999>>, <<AddrWord>>}
       \/ /\ path_commands = {}
          /\ test_current
          /\ custom_servers = <<AddrOctet256, Addr9999>>

Next ==
    \/ CheckTools
    \/ Discover
    \/ BuildList
    \/ EnterServer
    \/ LoopDone
    \/ Submit
    \/ \E k \in DOMAIN fut : WorkerStart(k[1], k[2])
    \/ \E k \in DOMAIN fut : ProbeFinish(k[1], k[2], ExtResults)
    \/ \E k \in DOMAIN fut : WorkerRaise(k[1], k[2])
    \/ \E d \in Domains : Collect(d)
    \/ Return
    \/ Interrupt
    \/ UnexpectedError
    \/ InterruptCaught
    \/ ErrorCaught
    \/ InterruptJoin

\* run_benchmark with lookups that fail, raise or time out, with interrupts
\* and unexpected errors
Spec == Init /\ [][Next]_vars

NextBuild ==
    \/ CheckTools
    \/ Discover
    \/ BuildList
    \/ EnterServer
    \/ LoopDone
    \/ Submit
    \/ \E k \in DOMAIN fut : WorkerStart(k[1], k[2])
    \/ \E k \in DOMAIN fut : ProbeFinish(k[1], k[2], GoodExtResults)
    \/ \E d \in Domains : Collect(d)
    \/ Return

\* run_benchmark for every combination of options, with lookups that
\* resolve and no interrupt
SpecBuild == InitAll /\ [][NextBuild]_vars

(***************************************************************************)
(* get_current_dns_servers on its own: every host whose four sources each  *)
(* fail or yield up to MaxCands of the tokens below.                       *)
(***************************************************************************)
DiscTokens == {Addr1111, AddrStub, AddrV6Loopback, AddrV6LinkLocal, AddrOctet256}

SeqsUpTo(S, n) == UNION {[1..m -> S] : m \in 0..n}

SourceOutcomes == {NoSource} \cup {Found(c) : c \in SeqsUpTo(DiscTokens, MaxCands)}

InitDisc ==
    /\ path_commands = {"dig"}
    /\ sources \in [1..Len(SourceNames) -> SourceOutcomes]
    /\ test_current = TRUE
    /\ test_public = FALSE
    /\ top3_only = FALSE
    /\ custom_servers = <<>>
    /\ pc = "discover"
    /\ Fresh

SpecDisc == InitDisc /\ [][Discover]_vars

(***************************************************************************)
(* print_results on its own: every sequence of up to MaxResults results    *)
(* that benchmark_server can return for the names and samples below.       *)
(***************************************************************************)
ReportNames ==
    { <<CurrentLabel(Addr1111), Addr1111>>,
      <<CurrentLabel(Addr8888), Addr8888>>,
      << <<"Google">>, Addr8888 >> }

\* the response times (ms) of the lookups of one server that succeeded
SampleLists == { <<>>, <<50>>, <<100>>, <<100, 50>> }

ReportResults ==
    { ServerStats(n[1], n[2], [i \in 1..Len(l) |-> Ms(l[i])], NumDomains - Len(l)) :
        n \in ReportNames, l \in SampleLists }

InitReport ==
    /\ path_commands = {"dig"}
    /\ sources = <<NoSource, NoSource, NoSource, NoSource>>
    /\ test_current = TRUE
    /\ test_public = TRUE
    /\ top3_only = FALSE
    /\ custom_servers = <<>>
    /\ pc = "report"
    /\ dig_available = TRUE
    /\ current_dns = <<>>
    /\ servers_to_test = <<>>
    /\ idx = 1
    /\ results \in SeqsUpTo(ReportResults, MaxResults)
    /\ fut = <<>>
    /\ successful_queries = <<>>
    /\ failed_queries = 0
    /\ exc = "none"
    /\ log = <<>>
    /\ calls = {}
    /\ output = NothingPrinted

SpecReport == InitReport /\ [][PrintResults]_vars

(***************************************************************************)
(* The claims.                                                             *)
(***************************************************************************)
\* the <<label, address>> pairs of the results, in order
Targets(rs) == [i \in 1..Len(rs) |-> <<rs[i].name, rs[i].server>>]

\* the servers whose benchmark_server call returned, in list order
Completed ==
    LET ok == {i \in 1..Len(log) : log[i] = "ok"}
        RECURSIVE Pick(_)
        Pick(i) == IF i > Len(log) THEN <<>>
                   ELSE (IF i \in ok THEN <<servers_to_test[i]>> ELSE <<>>) \o Pick(i + 1)
    IN  Pick(1)

\* C1: every ServerStats in results counts each of the NumDomains submitted
\* domains exactly once, as successful or as failed, whatever the lookups did
\* (resolved, failed, timed out, raised) and in whatever order they finished;
\* while a server is being collected the two counters add up to the number
\* of futures as_completed has handed out; and a run in which the main
\* thread was neither interrupted nor hit by an error has a result for
\* every server, so no lookup failure aborts a benchmark.
C1_EveryDomainCountedOnce ==
    /\ \A i \in 1..Len(results) :
          results[i].successful_queries + results[i].failed_queries = NumDomains
    /\ pc = "collect" =>
          Len(successful_queries) + failed_queries =
             Cardinality({d \in Domains : fut[<<idx, d>>].st = "yielded"})
    /\ (pc = "returned" /\ servers_to_test # <<>>
           /\ \A i \in 1..Len(log) : log[i] = "ok")
          => Len(results) = Len(servers_to_test)

\* a returned ServerStats that mixes successes and failures, and one with
\* every lookup failed
C1_Witness ==
    /\ Len(results) = 2
    /\ results[1].successful_queries >= 1
    /\ results[1].failed_queries >= 2
    /\ results[2].failed_queries = NumDomains

C2_IsLoopback(a) ==
    \/ Ipv4PatternMatches(a) /\ IntOf(Split(a, ".")[1]) = 127
    \/ a = AddrV6Loopback

\* C2: the sequence get_current_dns_servers returns holds no address twice
\* and no loopback address (none in 127.0.0.0/8, and not ::1).
C2_UniqueNoLoopback ==
    pc = "build" =>
       /\ \A i, j \in 1..Len(current_dns) : i # j => current_dns[i] # current_dns[j]
       /\ \A i \in 1..Len(current_dns) : ~C2_IsLoopback(current_dns[i])

\* C3: with neither dig nor nslookup on the host, run_benchmark returns an
\* empty result sequence right after the tool check, for every combination
\* of options: no discovery, no server list, no lookup.
C3_FailsFastWithoutLookupTool ==
    (pc # "start" /\ "dig" \notin path_commands /\ "nslookup" \notin path_commands)
       => /\ pc = "returned"
          /\ results = <<>>
          /\ calls = {"check_command"}
          /\ current_dns = <<>>
          /\ servers_to_test = <<>>
          /\ InFlight = {}

\* a run without lookup tools that was asked for everything has returned
C3_Witness ==
    /\ pc = "returned"
    /\ path_commands = {}
    /\ test_current /\ test_public
    /\ custom_servers # <<>>
    /\ sources # <<NoSource, NoSource, NoSource, NoSource>>

\* C4: a run ended by an interrupt during the benchmark of server k returns
\* the statistics of exactly the servers before k whose benchmark returned,
\* in list order; server k contributes no entry; no server after k has had a
\* lookup submitted.
C4_InterruptKeepsCompleted ==
    (pc = "returned" /\ exc = "KeyboardInterrupt")
       => /\ Len(log) = idx
          /\ log[idx] = "interrupt"
          /\ \A i \in 1..(idx - 1) : log[i] # "interrupt"
          /\ Targets(results) = Completed
          /\ \A i \in 1..Len(results) :
                results[i].successful_queries + results[i].failed_queries = NumDomains
          /\ \A k \in DOMAIN fut : k[1] > idx => fut[k].st = "none"

\* the interrupt arrived during the second server, after the first returned
C4_Witness ==
    /\ pc = "returned"
    /\ exc = "KeyboardInterrupt"
    /\ log = <<"ok", "interrupt">>
    /\ Len(results) = 1

\* C5: a run that was not interrupted returns one ServerStats for every
\* server whose benchmark raised no unexpected error, in list order; a
\* server whose benchmark raised is omitted and the servers after it are
\* still benchmarked; and every future that exists belongs to the server
\* right after those already settled, so a server's statistics are complete
\* before the next server's first lookup.
C5_OrderedResultsDespiteErrors ==
    exc # "KeyboardInterrupt" =>
       /\ \A k \in DOMAIN fut : fut[k].st # "none" => k[1] = Len(log) + 1
       /\ Targets(results) = Completed
       /\ pc = "returned" /\ servers_to_test # <<>> =>
             /\ Len(log) = Len(servers_to_test)
             /\ \A i \in 1..Len(log) : log[i] \in {"ok", "error"}

\* the first server's benchmark raised, the second was still benchmarked
C5_Witness ==
    /\ pc = "returned"
    /\ exc = "none"
    /\ log = <<"error", "ok">>
    /\ Len(results) = 1
    /\ results[1].name = servers_to_test[2][1]

\* C6: at most 3 lookups are in flight, and all of them target the same server.
C6_AtMostThreeOneServer ==
    /\ Cardinality(InFlight) <= 3
    /\ \A a, b \in InFlight : a[1] = b[1]

\* three lookups of the second server in flight, a fourth waiting
C6_Witness ==
    /\ Cardinality(InFlight) = 3
    /\ idx = 2
    /\ Queued(fut, 2) # {}

\* what C7 says the list is
C7_Expected ==
    LET discovered == get_current_dns_servers(sources)
        valid      == SelectSeq(custom_servers, validate_ip_address)
        cur == IF test_current
               THEN [i \in 1..Len(discovered) |->
                       << <<"Current-", discovered[i]>>, discovered[i] >>]
               ELSE <<>>
        cus == [i \in 1..Len(valid) |-> << <<"Custom-", valid[i]>>, valid[i] >>]
        pub == IF test_public
               THEN (IF top3_only THEN top3_dns_servers ELSE public_dns_servers)
               ELSE <<>>
    IN  cur \o cus \o pub

\* C7: for every combination of test_current, test_public, top3_only and
\* custom_servers the list run_benchmark builds is the current servers
\* labelled Current-<address>, then the valid custom addresses in the order
\* given labelled Custom-<address>, then the 3 top3 entries or the 10 public
\* entries; an empty list makes the run return no results without a lookup.
C7_ServerListAsSpecified ==
    /\ Len(top3_dns_servers) = 3
    /\ Len(public_dns_servers) = 10
    /\ pc \notin {"start", "discover", "build"} /\ "build" \in calls =>
          /\ servers_to_test = C7_Expected
          /\ servers_to_test = <<>> =>
                /\ pc = "returned"
                /\ results = <<>>
                /\ "query_dns" \notin calls
                /\ "benchmark_server" \notin calls

\* two current servers, an invalid custom address skipped, a valid one
\* kept, the 10 public servers: 13 servers, all benchmarked
C7_Witness ==
    /\ pc = "returned"
    /\ test_current /\ test_public /\ ~top3_only
    /\ custom_servers = <<AddrOctet256, Addr9999>>
    /\ Len(servers_to_test) = 13
    /\ Len(results) = 13

\* C8: in table mode the ranked table holds exactly the results with at
\* least one successful lookup, which are those with a finite average, in
\* ascending order of average, ties in their collected order; a result with
\* no successful lookup has its four statistics at the infinite sentinel, is
\* not ranked and is in the failure listing.
C8_RankedValidStable ==
    (pc = "printed" /\ output.kind = "table") =>
       LET t == output.table
           V == {i \in 1..Len(results) : results[i].successful_queries >= 1}
       IN  /\ \E p \in [1..Len(t) -> V] :
                 /\ \A i \in V : \E j \in 1..Len(t) : p[j] = i
                 /\ \A i, j \in 1..Len(t) : i < j => p[i] # p[j]
                 /\ \A i \in 1..Len(t) : t[i] = results[p[i]]
                 /\ \A i, j \in 1..Len(t) : i < j =>
                       \/ results[p[i]].avg_time.v < results[p[j]].avg_time.v
                       \/ /\ results[p[i]].avg_time.v = results[p[j]].avg_time.v
                          /\ p[i] < p[j]
           /\ \A i \in V : results[i].avg_time.fin
           /\ \A i \in (1..Len(results)) \ V :
                 /\ results[i].avg_time = Inf
                 /\ results[i].min_time = Inf
                 /\ results[i].max_time = Inf
                 /\ results[i].median_time = Inf
                 /\ \A j \in 1..Len(t) : t[j] # results[i]
           /\ output.failures =
                 SelectSeq(results, LAMBDA r : r.successful_queries = 0)

\* a table of three: two different servers tied on the average, in their
\* collected order, behind a faster one that was collected last; none failed
C8_Witness ==
    /\ pc = "printed"
    /\ output.kind = "table"
    /\ Len(results) = 3
    /\ Len(output.table) = 3
    /\ output.table[1] = results[3]
    /\ output.table[2] = results[1]
    /\ output.table[3] = results[2]
    /\ results[1].avg_time = results[2].avg_time
    /\ results[1].name # results[2].name

C9_HasCurrent(t) == \E i \in 1..Len(t) : t[i].name[1] = "Current-"

\* the rank of the best-ranked current server
C9_CurrentRank(t) ==
    CHOOSE i \in 1..Len(t) :
       /\ t[i].name[1] = "Current-"
       /\ \A j \in 1..(i - 1) : t[j].name[1] # "Current-"

\* the improvement or the already-fastest report, as C9 describes them
C9_Reported(t, c) ==
    LET k    == C9_CurrentRank(t)
        cur  == t[k].avg_time.v
        best == t[1].avg_time.v
    IN  IF k > 1
        THEN /\ c.kind = "improve"
             /\ c.rank = k
             /\ c.den > 0
             /\ c.num * cur = (cur - best) * 100 * c.den
        ELSE c.kind = "fastest"

\* C9 as stated: whenever a valid result is a current server, the report
\* carries the improvement (current not first) or the already-fastest
\* message (current first); one of the two is always there.
C9_AlwaysOneReport ==
    (pc = "printed" /\ output.kind = "table" /\ C9_HasCurrent(output.table))
       => C9_Reported(output.table, output.comparison)

\* C9 amended: the same, when the table ranks at least two servers; when the
\* current server is the only valid result, no comparison is reported.
C9_OneReportWhenTwoRanked ==
    (pc = "printed" /\ output.kind = "table" /\ C9_HasCurrent(output.table))
       => IF Len(output.table) >= 2
          THEN C9_Reported(output.table, output.comparison)
          ELSE output.comparison.kind = "none"

\* current server at 100 ms ranked behind a 50 ms server: 50 % reported
C9_Witness ==
    /\ pc = "printed"
    /\ output.kind = "table"
    /\ output.comparison.kind = "improve"
    /\ output.table[1].avg_time = Ms(50)
    /\ output.table[output.comparison.rank].avg_time = Ms(100)
    /\ output.comparison.num = 50 * output.comparison.den

\* C10: once the interrupt has been raised in the main thread, no lookup
\* that had not started starts before run_benchmark returns.
C10_NoLookupStartsAfterInterrupt ==
    [][(pc = "unwind" /\ exc = "KeyboardInterrupt")
          => \A k \in DOMAIN fut : fut'[k].st = "running" => fut[k].st = "running"]_vars

====
